---- MODULE Spec2Model ----
(***************************************************************************)
(* State-machine model of the device synchronisation, batch upload and      *)
(* firmware download protocol of the Thermia backend (Django / DRF).        *)
(*                                                                          *)
(* The persisted tables (Device, License, Firmware, Session, SessionLog),   *)
(* the firmware backing store and the requests in flight are the state.     *)
(* Every request handler is an action (or a short chain of actions where    *)
(* its steps can interleave with other requests).                           *)
(***************************************************************************)
EXTENDS Integers, Sequences, FiniteSets, TLC

(***************************************************************************)
(* Bounds of the model.                                                     *)
(***************************************************************************)
MaxDay == 1
MaxLicenses == 1
MaxBatch == 2
MaxStored == 2
MaxPending == 2

(***************************************************************************)
(* Value universes.                                                         *)
(***************************************************************************)
Devices == {"d1", "d2"}

\* Device.api_key is unique per device (models.py: unique=True).
ApiKeyOf(d) == IF d = "d1" THEN "k1" ELSE "k2"

\* Device.clinic (nullable): d2 is an unassigned device.
ClinicOf(d) == IF d = "d1" THEN "c1" ELSE "NoClinic"

\* The X-API-KEY header values a request may carry; NoKey is "header absent".
NoKey == ""
Keys == {"k1", "k2", "kx", NoKey}

\* The value of a nullable column that holds NULL (dates, timestamps).
Null == -1

\* Version strings as sequences of character codes: "9", "10", "11".
Versions == {<<9>>, <<1, 0>>, <<1, 1>>}

Reasons == {"access restricted", "tamper"}

\* Session.patient is nullable; the patients on record.
NoPatient == "NoPatient"
Patients == {"p1", "p2"}

DeviceStatuses == {"active", "locked", "maintenance"}
LicenseStatuses == {"active", "expired", "locked"}
LicenseTypes == {"trial", "full"}

\* The columns of the Device table that change in the model.
DeviceFields ==
    {"status", "lock_reason", "firmware_version", "last_heartbeat", "last_online"}

VARIABLES
    now,        \* the clock, in days (timezone.now())
    devices,    \* Device table: device id -> row
    licenses,   \* License table: sequence of rows, id = index
    firmwares,  \* Firmware table: sequence of rows, id = index
    files,      \* backing store: firmware id -> content, or Missing
    sessions,   \* Session table: sequence of rows, id = index
    logs,       \* SessionLog table: sequence of rows
    sync,       \* the sync request in flight and its response
    admin,      \* the last administrative request and its response
    upload,     \* the upload request in flight and its response
    download,   \* the download request in flight and its response
    sync2,      \* a second sync request, handled by another worker
    creating    \* license creations that passed validation, not yet saved

vars ==
    <<now, devices, licenses, firmwares, files, sessions, logs,
      sync, admin, upload, download, sync2, creating>>

dbvars == <<devices, licenses, firmwares, files, sessions, logs>>

(***************************************************************************)
(* Model instances.  A model instance is the row as loaded, its primary    *)
(* key, and whatever attributes the handler sets on the Python object.     *)
(* save() writes the model's columns and nothing else.                     *)
(***************************************************************************)
LoadDevice(d) == [pk |-> d] @@ devices[d]

HasAttr(inst, a) == a \in DOMAIN inst

SetAttr(inst, a, v) == (a :> v) @@ inst

SaveDevice(inst) ==
    [devices EXCEPT ![inst.pk] = [f \in DeviceFields |-> inst[f]]]

(***************************************************************************)
(* Responses.                                                               *)
(***************************************************************************)
Response(code, body) == [code |-> code, body |-> body]

\* An exception no handler catches: Django answers 500.
ServerError(exc) == Response(500, [exception |-> exc])

NoResponse == Response(0, [none |-> TRUE])

(***************************************************************************)
(* String order.  Version strings are compared by the database as          *)
(* strings: character by character, a proper prefix being smaller.          *)
(***************************************************************************)
RECURSIVE StrLess(_, _)
StrLess(a, b) ==
    IF b = <<>> THEN FALSE
    ELSE IF a = <<>> THEN TRUE
    ELSE IF Head(a) # Head(b) THEN Head(a) < Head(b)
    ELSE StrLess(Tail(a), Tail(b))

(***************************************************************************)
(* DeviceAuthentication.authenticate: the API key of an active device.     *)
(***************************************************************************)
Anonymous == [anonymous |-> TRUE]

IsDevice(user) == HasAttr(user, "pk")

AuthStatusFilter(d) == devices[d].status = "active"

KeyMatches(key) == {d \in Devices : ApiKeyOf(d) = key /\ AuthStatusFilter(d)}

\* "anonymous": no header, authenticate returns None and the view runs with
\* an anonymous user (permission_classes = []); "failed": AuthenticationFailed,
\* answered 403 (the scheme has no authenticate header); otherwise the device.
Authenticate(key) ==
    IF key = NoKey THEN [outcome |-> "anonymous", user |-> Anonymous]
    ELSE IF KeyMatches(key) = {} THEN [outcome |-> "failed", user |-> Anonymous]
    ELSE [outcome |-> "device",
          user |-> LoadDevice(CHOOSE d \in KeyMatches(key) : TRUE)]

AuthFailed == Response(403, [detail |-> "Invalid API key"])

(***************************************************************************)
(* License lookups.                                                         *)
(***************************************************************************)
LicenseIds == 1..Len(licenses)

LicensesOf(d) == {i \in LicenseIds : licenses[i].device = d}

ActiveLicensesOf(d) == {i \in LicensesOf(d) : licenses[i].status = "active"}

\* License.objects.get(device=device, status='active') and the date test of
\* DeviceSyncView.post.  "raise" names the exception that escapes the handler.
CheckLicense(d) ==
    LET act == ActiveLicensesOf(d) IN
    IF act = {} THEN [raise |-> "", valid |-> FALSE]
    ELSE IF Cardinality(act) > 1
        THEN [raise |-> "MultipleObjectsReturned", valid |-> FALSE]
    ELSE LET lic == licenses[CHOOSE i \in act : TRUE] IN
         IF lic.end_date = Null THEN [raise |-> "TypeError", valid |-> FALSE]
         ELSE [raise |-> "", valid |-> lic.end_date >= now]

(***************************************************************************)
(* Firmware.objects.filter(device=device, firmware_version__gt=current)    *)
(*         .order_by('-firmware_version').first()                          *)
(***************************************************************************)
FirmwareIds == 1..Len(firmwares)

NoFirmware == 0

LatestFirmware(d, current) ==
    LET newer == {i \in FirmwareIds :
                    /\ firmwares[i].device = d
                    /\ StrLess(current, firmwares[i].firmware_version)} IN
    IF newer = {} THEN NoFirmware
    ELSE CHOOSE i \in newer :
            \A j \in newer :
                ~StrLess(firmwares[i].firmware_version, firmwares[j].firmware_version)

(***************************************************************************)
(* DeviceSyncView.get_device_features / get_device_config.                 *)
(***************************************************************************)
FirstLicenseOf(d) ==
    IF LicensesOf(d) = {} THEN 0
    ELSE CHOOSE i \in LicensesOf(d) : \A j \in LicensesOf(d) : i <= j

DeviceFeatures(d) ==
    LET base == {"auto_update", "remote_diagnostics", "data_encryption"}
        first == FirstLicenseOf(d) IN
    IF first # 0 /\ licenses[first].license_type = "full"
        THEN base \cup {"advanced_reporting", "multi_user"}
        ELSE base

SyncInterval == 300
MaxRetryCount == 3

DeviceConfig(d) ==
    [sync_interval |-> SyncInterval, max_retry_count |-> MaxRetryCount,
     log_level |-> "info", features |-> DeviceFeatures(d)]

(***************************************************************************)
(* DeviceSyncSerializer: serial is required; the other fields are optional. *)
(***************************************************************************)
Serials == {"SN-1"}

SyncBodies ==
    {b0 @@ b1 :
        b0 \in {<<>>} \cup {[serial |-> s] : s \in Serials},
        b1 \in {<<>>} \cup {[firmware_version |-> v] : v \in Versions}}

SyncRequiredFields == {"serial"}

\* A serializer without required fields.
SyncBodyValidAny(body) == DOMAIN body \subseteq DOMAIN body

SyncBodyValid(body) == SyncRequiredFields \subseteq DOMAIN body

SyncIdle == [pc |-> "idle", key |-> NoKey, body |-> <<>>, user |-> Anonymous,
             resp |-> NoResponse]

\* data.get('sessions', []) and data.get('logs', []).
BodySessions(body) == IF "sessions" \in DOMAIN body THEN body.sessions ELSE <<>>

BodyLogs(body) == IF "logs" \in DOMAIN body THEN body.logs ELSE <<>>

\* The items a device puts into a sync: sessions carry the client reference,
\* logs carry the reference and, when the device knows one, a server id.
SyncSessionItems == {[reference |-> "r1", patient_id |-> ""]}

SyncLogItems ==
    {[session_reference |-> "r1", session_id |-> id, log_type |-> "info"] :
        id \in {Null, 1}}

(***************************************************************************)
(* DeviceSyncView: authentication (request.user), then post.               *)
(***************************************************************************)
\* The request after authentication: answered 403, or on its way to post.
SyncArrival(key, body) ==
    LET auth == Authenticate(key) IN
    IF auth.outcome = "failed"
        THEN [pc |-> "done", key |-> key, body |-> body,
              user |-> auth.user, resp |-> AuthFailed]
        ELSE [pc |-> "post", key |-> key, body |-> body,
              user |-> auth.user, resp |-> NoResponse]

SyncAuthenticate(key, body) ==
    /\ sync.pc # "post"
    /\ Len(sessions) + Len(BodySessions(body)) <= MaxStored
    /\ Len(logs) + Len(BodyLogs(body)) <= MaxStored
    /\ sync' = SyncArrival(key, body)
    /\ UNCHANGED <<sync2, creating, now, devices, licenses, firmwares, files,
                   sessions, logs, admin, upload, download>>

\* The instance after lines 168-171: firmware_version from the body when the
\* body carries one, both timestamps set to now.
SyncUpdated(user, body) ==
    [user EXCEPT
        !.firmware_version =
            IF "firmware_version" \in DOMAIN body THEN body.firmware_version ELSE @,
        !.last_heartbeat = now,
        !.last_online = now]

\* The response body of lines 203-219.
SyncResponseBody(dev, license_valid, latest) ==
    LET is_locked == dev.is_locked \/ ~license_valid IN
    [status |-> IF ~is_locked THEN "ok" ELSE "locked",
     is_locked |-> is_locked,
     lock_reason |-> IF is_locked THEN dev.lock_reason ELSE "",
     license_valid |-> license_valid,
     device_config |-> DeviceConfig(dev.pk),
     firmware_update |->
        IF latest = NoFirmware THEN [present |-> FALSE]
        ELSE [present |-> TRUE,
              version |-> firmwares[latest].firmware_version,
              id |-> latest,
              checksum |-> firmwares[latest].checksum,
              mandatory |-> TRUE]]

\* What post answers once the device row has been saved (lines 174-222).
SyncAfterSave(dev) ==
    LET lic == CheckLicense(dev.pk)
        latest == LatestFirmware(dev.pk, dev.firmware_version) IN
    IF lic.raise # "" THEN ServerError(lic.raise)
    ELSE IF ~HasAttr(dev, "is_locked") THEN ServerError("AttributeError")
    ELSE Response(200, SyncResponseBody(dev, lic.valid, latest))

\* process_sessions, lines 228-240: one create per item; an item whose create
\* raises (k \in fs) is logged and skipped, the others stay.
RECURSIVE ProcessSessions(_, _, _, _, _)
ProcessSessions(table, dev, items, fs, k) ==
    IF k > Len(items) THEN table
    ELSE ProcessSessions(
            IF k \in fs THEN table
            ELSE Append(table,
                    [device |-> dev.pk, clinic |-> ClinicOf(dev.pk),
                     patient |-> IF items[k].patient_id = "" THEN NoPatient
                                 ELSE items[k].patient_id]),
            dev, items, fs, k + 1)

\* process_logs, lines 247-257: the log is bound by the item's session_id.
\* SessionLog.session is nullable: an item without session_id is stored with
\* no session; an id no stored session has makes the insert raise, and the
\* item is skipped.
RECURSIVE ProcessLogs(_, _, _, _, _)
ProcessLogs(table, stored, items, fl, k) ==
    IF k > Len(items) THEN table
    ELSE ProcessLogs(
            IF \/ k \in fl
               \/ /\ items[k].session_id # Null
                  /\ items[k].session_id \notin 1..Len(stored)
                THEN table
            ELSE Append(table,
                    [session |-> items[k].session_id,
                     log_type |-> items[k].log_type]),
            stored, items, fl, k + 1)

\* Lines 193-201.
SyncIngest(dev, body, fs, fl) ==
    LET stored == ProcessSessions(sessions, dev, BodySessions(body), fs, 1) IN
    [sessions |-> stored,
     logs |-> ProcessLogs(logs, stored, BodyLogs(body), fl, 1)]

\* post on the request r.  fs, fl: the positions of the session and log
\* items whose insert fails.  The result is the answered request and the
\* tables as post leaves them.
SyncHandled(r, fs, fl) ==
    IF ~SyncBodyValid(r.body)
        THEN [r |-> [r EXCEPT !.pc = "done",
                         !.resp = Response(400, [serial |-> "required"])],
              devices |-> devices, sessions |-> sessions, logs |-> logs]
    ELSE IF ~IsDevice(r.user)
        \* data.get('firmware_version', device.firmware_version) on the
        \* anonymous user
        THEN [r |-> [r EXCEPT !.pc = "done",
                         !.resp = ServerError("AttributeError")],
              devices |-> devices, sessions |-> sessions, logs |-> logs]
    ELSE LET dev == SyncUpdated(r.user, r.body)
             resp == SyncAfterSave(dev)
             ing == SyncIngest(dev, r.body, fs, fl) IN
         [r |-> [r EXCEPT !.pc = "done", !.user = dev, !.resp = resp],
          devices |-> SaveDevice(dev),
          \* the exceptions of lines 177-191 leave post before line 193
          sessions |-> IF resp.code = 200 THEN ing.sessions ELSE sessions,
          logs |-> IF resp.code = 200 THEN ing.logs ELSE logs]

SyncPost(fs, fl) ==
    /\ sync.pc = "post"
    /\ LET h == SyncHandled(sync, fs, fl) IN
        /\ sync' = h.r
        /\ devices' = h.devices
        /\ sessions' = h.sessions
        /\ logs' = h.logs
    /\ UNCHANGED <<sync2, creating, now, licenses, firmwares, files, admin,
                   upload, download>>

\* The same view serving a second request at the same time (another worker
\* process): its own request object and its own Device instance, the same
\* database.
SyncAuthenticate2(key, body) ==
    /\ sync2.pc # "post"
    /\ Len(sessions) + Len(BodySessions(body)) <= MaxStored
    /\ Len(logs) + Len(BodyLogs(body)) <= MaxStored
    /\ sync2' = SyncArrival(key, body)
    /\ UNCHANGED <<sync, creating, now, devices, licenses, firmwares, files,
                   sessions, logs, admin, upload, download>>

SyncPost2(fs, fl) ==
    /\ sync2.pc = "post"
    /\ LET h == SyncHandled(sync2, fs, fl) IN
        /\ sync2' = h.r
        /\ devices' = h.devices
        /\ sessions' = h.sessions
        /\ logs' = h.logs
    /\ UNCHANGED <<sync, creating, now, licenses, firmwares, files, admin,
                   upload, download>>

\* The sets of failing positions: no insert fails, or one does.
FailSets == {{}} \cup {{k} : k \in 1..MaxBatch}

(***************************************************************************)
(* DeviceViewSet.lock / unlock (administrative actor).                      *)
(***************************************************************************)
\* The attributes a Device instance answers besides its columns: the reverse
\* accessors the models declare (related_name).
DeviceRelations == {"licenses", "firmwares", "sessions"}

Resolves(inst, a) == HasAttr(inst, a) \/ a \in DeviceRelations

AdminIdle == [op |-> "none", device |-> "d1", resp |-> NoResponse]

\* The request inputs the lock/licence specification draws from.
LockDevices == {"d1"}
LockKeys == {"k1", "kx", NoKey}
LockBodies == {<<>>, [serial |-> "SN-1"],
               [serial |-> "SN-1", firmware_version |-> <<1, 1>>]}
EndDates == {Null, 0}

AdminOk(d, msg) == Response(200, [status |-> "success", message |-> msg])

LockedInstance(d, reason) ==
    [SetAttr(LoadDevice(d), "is_locked", TRUE) EXCEPT
        !.status = "locked", !.lock_reason = reason]

UnlockedInstance(d) ==
    [SetAttr(LoadDevice(d), "is_locked", FALSE) EXCEPT
        !.status = "active", !.lock_reason = ""]

\* Lines 68-74 and 94-100: device.license is read after the device is saved.
\* Device has no attribute of that name, so the read raises AttributeError,
\* which "except License.DoesNotExist" does not catch; no license is touched.
LicenseAfterLock(inst, status) ==
    IF Resolves(inst, "license")
        THEN [raise |-> "", licenses |->
                [i \in LicenseIds |->
                    IF licenses[i].device = inst.pk
                        THEN [licenses[i] EXCEPT !.status = status]
                        ELSE licenses[i]]]
        ELSE [raise |-> "AttributeError", licenses |-> licenses]

Lock(d, reason) ==
    LET inst == LockedInstance(d, reason)
        lic == LicenseAfterLock(inst, "locked") IN
    /\ devices' = SaveDevice(inst)
    /\ licenses' = lic.licenses
    /\ admin' = [op |-> "lock", device |-> d,
                 resp |-> IF lic.raise # "" THEN ServerError(lic.raise)
                          ELSE AdminOk(d, "device locked!")]
    /\ UNCHANGED <<sync2, creating, now, firmwares, files, sessions, logs, sync, upload, download>>

Unlock(d) ==
    LET inst == UnlockedInstance(d)
        lic == LicenseAfterLock(inst, "active") IN
    /\ devices' = SaveDevice(inst)
    /\ licenses' = lic.licenses
    /\ admin' = [op |-> "unlock", device |-> d,
                 resp |-> IF lic.raise # "" THEN ServerError(lic.raise)
                          ELSE AdminOk(d, "device unlocked!")]
    /\ UNCHANGED <<sync2, creating, now, firmwares, files, sessions, logs, sync, upload, download>>

(***************************************************************************)
(* LicenseCreateView: LicenseSerializer.validate, then perform_create.     *)
(***************************************************************************)
\* serializers.py line 5 imports timezone from datetime, which has no now():
\* the date test raises AttributeError whenever an end_date is given.
LicenseValidate(d, end_date) ==
    IF end_date # Null THEN "AttributeError"
    ELSE IF ActiveLicensesOf(d) # {} THEN "ValidationError"
    ELSE ""

LicenseCreate(d, status, license_type, end_date) ==
    LET v == LicenseValidate(d, end_date)
        row == [device |-> d, status |-> status,
                license_type |-> license_type, end_date |-> end_date] IN
    /\ v = "" => Len(licenses) < MaxLicenses
    /\ IF v = "AttributeError"
         THEN /\ admin' = [op |-> "license", device |-> d,
                           resp |-> ServerError(v)]
              /\ UNCHANGED <<licenses, devices>>
       ELSE IF v = "ValidationError"
         THEN /\ admin' = [op |-> "license", device |-> d,
                           resp |-> Response(400, [detail |-> "already licensed"])]
              /\ UNCHANGED <<licenses, devices>>
       ELSE /\ licenses' = Append(licenses, row)
            /\ devices' =
                IF status = "active"
                    THEN SaveDevice([SetAttr(LoadDevice(d), "is_locked", FALSE)
                                        EXCEPT !.status = "active"])
                    ELSE devices
            /\ admin' = [op |-> "license", device |-> d,
                         resp |-> Response(201, [id |-> Len(licenses) + 1])]
    /\ UNCHANGED <<sync2, creating, now, firmwares, files, sessions, logs, sync, upload, download>>

\* The same view serving several requests at once: a request is validated
\* (the serializer has loaded the device and found no active license) and
\* saved later, while other requests are validated or saved in between.
LicenseValidated(d, status, license_type, end_date) ==
    LET v == LicenseValidate(d, end_date)
        row == [device |-> d, status |-> status,
                license_type |-> license_type, end_date |-> end_date] IN
    /\ v = "" => Len(licenses) + Len(creating) < MaxPending
    /\ IF v = "AttributeError"
         THEN /\ admin' = [op |-> "license", device |-> d,
                           resp |-> ServerError(v)]
              /\ UNCHANGED creating
       ELSE IF v = "ValidationError"
         THEN /\ admin' = [op |-> "license", device |-> d,
                           resp |-> Response(400, [detail |-> "already licensed"])]
              /\ UNCHANGED creating
       ELSE /\ creating' = Append(creating, [row |-> row, device |-> LoadDevice(d)])
            /\ UNCHANGED admin
    /\ UNCHANGED <<sync2, now, devices, licenses, firmwares, files, sessions,
                   logs, sync, upload, download>>

\* perform_create of the k-th validated request.
LicenseSaved(k) ==
    /\ k \in 1..Len(creating)
    /\ LET c == creating[k] IN
        /\ licenses' = Append(licenses, c.row)
        /\ devices' =
            IF c.row.status = "active"
                THEN SaveDevice([SetAttr(c.device, "is_locked", FALSE)
                                    EXCEPT !.status = "active"])
                ELSE devices
        /\ admin' = [op |-> "license", device |-> c.row.device,
                     resp |-> Response(201, [id |-> Len(licenses) + 1])]
    /\ creating' = [j \in 1..(Len(creating) - 1) |->
                        IF j < k THEN creating[j] ELSE creating[j + 1]]
    /\ UNCHANGED <<sync2, now, firmwares, files, sessions, logs, sync, upload,
                   download>>

(***************************************************************************)
(* Time passes: the date moves on and licenses run past their end_date.     *)
(***************************************************************************)
Tick ==
    /\ now < MaxDay
    /\ now' = now + 1
    /\ UNCHANGED <<sync2, creating, devices, licenses, firmwares, files, sessions, logs,
                   sync, admin, upload, download>>

(***************************************************************************)
(* Patients and patient tokens (the token store is an external             *)
(* collaborator: a token names a patient and expires).                     *)
(***************************************************************************)
\* token -> the PatientToken row
TokenTable(t) ==
    IF t = "t1" THEN [exists |-> TRUE, patient |-> "p1", expires_at |-> 1]
    ELSE [exists |-> FALSE, patient |-> NoPatient, expires_at |-> Null]

\* SessionUploadView.create_session, lines 84-102.  "" is a field that is
\* absent or null in the item.
\* A resolution that falls back to the token when the identifier is unknown.
ResolvePatientFallback(item) ==
    LET t == TokenTable(item.patient_token) IN
    IF item.patient_id # "" /\ item.patient_id \in Patients THEN item.patient_id
    ELSE IF item.patient_token # "" /\ t.exists /\ t.expires_at > now THEN t.patient
    ELSE NoPatient

ResolvePatient(item) ==
    IF item.patient_id # ""
        THEN IF item.patient_id \in Patients THEN item.patient_id ELSE NoPatient
    ELSE IF item.patient_token # ""
        THEN LET t == TokenTable(item.patient_token) IN
             IF t.exists /\ t.expires_at > now THEN t.patient ELSE NoPatient
    ELSE NoPatient

(***************************************************************************)
(* Upload batches.                                                          *)
(***************************************************************************)
Refs == {"r1", "r2"}
LogRefs == Refs \cup {"rX"}

SessionItems ==
    {[reference |-> "r1", patient_id |-> "", patient_token |-> ""],
     [reference |-> "r2", patient_id |-> "p1", patient_token |-> ""]}

LogItems == {[session_reference |-> r, log_type |-> "info"] : r \in LogRefs}

SeqsUpTo(S, n) == UNION {[1..k -> S] : k \in 0..n}

Batches ==
    {[sessions |-> ss, logs |-> ls] :
        ss \in SeqsUpTo(SessionItems, MaxBatch), ls \in SeqsUpTo(LogItems, MaxBatch)}

EmptyBatch == [sessions |-> <<>>, logs |-> <<>>]

\* SessionUploadSerializer.validate: every log names a reference of the batch.
SessionRefs(batch) == {batch.sessions[j].reference : j \in 1..Len(batch.sessions)}

\* A validator that lets every batch through.
UploadValidNone(batch) == Len(batch.logs) >= 0

\* A validator that also refuses a batch once any session is stored.
UploadValidFresh(batch) ==
    /\ \A k \in 1..Len(batch.logs) :
            batch.logs[k].session_reference \in SessionRefs(batch)
    /\ batch.sessions # <<>> => sessions = <<>>

UploadValid(batch) ==
    \A k \in 1..Len(batch.logs) :
        batch.logs[k].session_reference \in SessionRefs(batch)

UploadIdle ==
    [pc |-> "idle", key |-> NoKey, user |-> Anonymous, batch |-> EmptyBatch,
     i |-> 1, session_map |-> <<>>, ids |-> <<>>,
     before |-> [sessions |-> 0, logs |-> 0],
     savepoint |-> [sessions |-> 0, logs |-> 0],
     resp |-> NoResponse]

(***************************************************************************)
(* SessionUploadView.post.                                                  *)
(***************************************************************************)
UploadAuthenticate(key, batch) ==
    /\ upload.pc \in {"idle", "done"}
    /\ Len(sessions) + Len(batch.sessions) <= MaxStored
    /\ Len(logs) + Len(batch.logs) <= MaxStored
    /\ LET auth == Authenticate(key)
           fresh == [UploadIdle EXCEPT
                        !.key = key, !.user = auth.user, !.batch = batch,
                        !.before = [sessions |-> Len(sessions), logs |-> Len(logs)]] IN
       upload' = IF auth.outcome = "failed"
                   THEN [fresh EXCEPT !.pc = "done", !.resp = AuthFailed]
                   ELSE [fresh EXCEPT !.pc = "post"]
    /\ UNCHANGED <<sync2, creating, now, devices, licenses, firmwares, files, sessions, logs,
                   sync, admin, download>>

\* Lines 28-42: the serializer, then the transaction is opened.
UploadBegin ==
    /\ upload.pc = "post"
    /\ upload' =
        IF ~UploadValid(upload.batch)
            THEN [upload EXCEPT !.pc = "done",
                      !.resp = Response(400, [detail |-> "unknown session"])]
            ELSE [upload EXCEPT !.pc = "atomic",
                      !.savepoint = [sessions |-> Len(sessions), logs |-> Len(logs)]]
    /\ UNCHANGED <<sync2, creating, now, devices, licenses, firmwares, files, sessions, logs,
                   sync, admin, download>>

\* transaction.atomic() left by an exception: what the block wrote is undone.
\* A transaction that keeps what it wrote.
RollbackNothing(table, mark) == SubSeq(table, 1, Len(table))

Rollback(table, mark) == SubSeq(table, 1, mark)

\* Lines 76-77: the handler catches the exception and answers 500 with a
\* JSON body.
UploadAbort(exc) ==
    /\ sessions' = Rollback(sessions, upload.savepoint.sessions)
    /\ logs' = Rollback(logs, upload.savepoint.logs)
    /\ upload' = [upload EXCEPT !.pc = "done",
                     !.resp = Response(500, [error |-> exc])]

\* A session booked on device d1 whoever uploads it.
NewSessionFirstDevice(user, item) ==
    [device |-> "d1", clinic |-> ClinicOf("d1"), patient |-> ResolvePatient(item)]

NewSession(user, item) ==
    [device |-> user.pk, clinic |-> ClinicOf(user.pk), patient |-> ResolvePatient(item)]

\* A map that keeps the first session stored under a reference.
SessionMapKeepFirst(map, ref, id) == map @@ (ref :> id)

\* Line 48, session_map[s_data['reference']] = session: the entry of the
\* reference is set, replacing the one it had.
SessionMapPut(map, ref, id) == (ref :> id) @@ map

\* Lines 45-49, one iteration; raises says whether the insert fails.
UploadCreateSession(raises) ==
    /\ upload.pc = "atomic"
    /\ upload.i <= Len(upload.batch.sessions)
    /\ LET item == upload.batch.sessions[upload.i] IN
       IF ~IsDevice(upload.user) THEN UploadAbort("AttributeError")
       ELSE IF raises THEN UploadAbort("DatabaseError")
       ELSE /\ sessions' = Append(sessions, NewSession(upload.user, item))
            /\ upload' = [upload EXCEPT
                            !.i = @ + 1,
                            !.session_map =
                                SessionMapPut(@, item.reference, Len(sessions) + 1),
                            !.ids = Append(@, Len(sessions) + 1)]
            /\ UNCHANGED logs
    /\ UNCHANGED <<sync2, creating, now, devices, licenses, firmwares, files, sync, admin, download>>

\* Lines 52-64: the logs whose reference the map resolves, each bound to the
\* session the map gives.
\* Every log bound to the first session of the map, whatever its reference.
LogObjectsFirstSession(items, map) ==
    [k \in 1..Len(items) |->
        [session |-> map[CHOOSE r \in DOMAIN map :
                            \A q \in DOMAIN map : map[r] <= map[q]],
         log_type |-> items[k].log_type]]

\* Every log bound to the id after its session's.
LogObjectsNextId(items, map) ==
    [k \in 1..Len(items) |->
        [session |-> map[items[k].session_reference] + 1,
         log_type |-> items[k].log_type]]

RECURSIVE LogObjects(_, _)
LogObjects(items, map) ==
    IF items = <<>> THEN <<>>
    ELSE LET l == Head(items) IN
         IF l.session_reference \in DOMAIN map
            THEN <<[session |-> map[l.session_reference], log_type |-> l.log_type]>>
                    \o LogObjects(Tail(items), map)
            ELSE LogObjects(Tail(items), map)

\* Lines 66-74: bulk_create, commit, 201.
UploadBulkLogs(raises) ==
    /\ upload.pc = "atomic"
    /\ upload.i > Len(upload.batch.sessions)
    /\ LET log_objects == LogObjects(upload.batch.logs, upload.session_map) IN
       IF log_objects # <<>> /\ raises THEN UploadAbort("DatabaseError")
       ELSE /\ logs' = logs \o log_objects
            /\ upload' = [upload EXCEPT !.pc = "done",
                            !.resp = Response(201,
                                [status |-> "success",
                                 created_sessions |-> upload.i - 1,
                                 created_logs |-> Len(log_objects)])]
            /\ UNCHANGED sessions
    /\ UNCHANGED <<sync2, creating, now, devices, licenses, firmwares, files, sync, admin, download>>

UploadKeys == {"k1", "kx", NoKey}

NextUpload ==
    \/ \E key \in UploadKeys, batch \in Batches : UploadAuthenticate(key, batch)
    \/ UploadBegin
    \/ \E raises \in BOOLEAN : UploadCreateSession(raises)
    \/ \E raises \in BOOLEAN : UploadBulkLogs(raises)

(***************************************************************************)
(* Firmware binaries.  A file's content is a small number; Sha256 is the    *)
(* digest of a content (distinct contents have distinct digests here).      *)
(***************************************************************************)
Missing == 0
Contents == {1, 2}

Sha256(c) == 1000 + ((c * 37) % 101)

InitFirmwares ==
    <<[device |-> "d1", firmware_version |-> <<1, 0>>, checksum |-> Sha256(1)],
      [device |-> "d2", firmware_version |-> <<1, 1>>, checksum |-> Sha256(2)]>>

InitFiles == <<1, 2>>

(***************************************************************************)
(* FirmwareUploadView: FirmwareSerializer, then perform_create.  A request  *)
(* names a device and a version, carries a file (Missing: no file part)     *)
(* and may carry a checksum of the caller's choosing.                       *)
(***************************************************************************)
\* checksum = '' (line 142).
NoChecksum == 0

SuppliedChecksums == {NoChecksum, Sha256(2)}

\* The errors of the serializer: file_path is required, firmware_version
\* carries the model's unique=True, validate() looks for (device, version).
FirmwareErrors(d, version, file) ==
    (IF file = Missing THEN {"file_path: required"} ELSE {})
    \cup (IF \E i \in FirmwareIds : firmwares[i].firmware_version = version
            THEN {"firmware_version: unique"} ELSE {})
    \cup (IF \E i \in FirmwareIds :
                /\ firmwares[i].device = d
                /\ firmwares[i].firmware_version = version
            THEN {"this version of firmware already exists"} ELSE {})

\* The checksum as the caller sent it.
UploadChecksumSupplied(file, supplied) == supplied

\* Lines 141-148: the digest of the uploaded bytes; save(checksum=...)
\* overrides the value the request carried.
UploadChecksum(file, supplied) ==
    IF file # Missing THEN Sha256(file) ELSE NoChecksum

FirmwareUpload(d, version, file, supplied) ==
    LET errors == FirmwareErrors(d, version, file) IN
    /\ IF errors # {}
         THEN /\ admin' = [op |-> "firmware", device |-> d,
                           resp |-> Response(400, [errors |-> errors])]
              /\ UNCHANGED <<firmwares, files>>
         ELSE /\ firmwares' = Append(firmwares,
                    [device |-> d, firmware_version |-> version,
                     checksum |-> UploadChecksum(file, supplied)])
              /\ files' = Append(files, file)
              /\ admin' = [op |-> "firmware", device |-> d,
                           resp |-> Response(201, [id |-> Len(firmwares) + 1])]
    /\ UNCHANGED <<sync2, creating, now, devices, licenses, sessions, logs, sync, upload, download>>

(***************************************************************************)
(* FirmwareDownloadView.get.  The file of firmware record f is files[f].   *)
(***************************************************************************)
RequestedIds == {1, 2, 3}

DownloadIdle ==
    [pc |-> "idle", key |-> NoKey, user |-> Anonymous, fid |-> 1,
     data |-> Missing, resp |-> NoResponse]

DownloadAuthenticate(key, fid) ==
    /\ download.pc \in {"idle", "done"}
    /\ LET auth == Authenticate(key)
           fresh == [DownloadIdle EXCEPT !.key = key, !.user = auth.user, !.fid = fid] IN
       download' = IF auth.outcome = "failed"
                     THEN [fresh EXCEPT !.pc = "done", !.resp = AuthFailed]
                     ELSE [fresh EXCEPT !.pc = "get"]
    /\ UNCHANGED <<sync2, creating, now, devices, licenses, firmwares, files, sessions, logs,
                   sync, admin, upload>>

\* The lookup without the ownership test.
LookupOutcomeNoOwner(user, fid) ==
    IF fid \notin FirmwareIds THEN Response(404, [error |-> "Firmware not found"])
    ELSE IF files[fid] = Missing
        THEN Response(404, [error |-> "firmware file not found"])
    ELSE NoResponse

\* The lookup with the file test ahead of the ownership test.
LookupOutcomeFileFirst(user, fid) ==
    IF fid \notin FirmwareIds THEN Response(404, [error |-> "Firmware not found"])
    ELSE IF files[fid] = Missing
        THEN Response(404, [error |-> "firmware file not found"])
    ELSE IF ~IsDevice(user) THEN ServerError("AttributeError")
    ELSE IF firmwares[fid].device # user.pk
        THEN Response(403, [error |-> "access denied to firmware"])
    ELSE NoResponse

\* Lines 298-309: Firmware.objects.get, the ownership test, os.path.exists.
\* NoResponse: the handler goes on to read the file.  For the anonymous user
\* the ownership test is true and the warning's device.serial_number raises.
LookupOutcome(user, fid) ==
    IF fid \notin FirmwareIds THEN Response(404, [error |-> "Firmware not found"])
    ELSE IF ~IsDevice(user) THEN ServerError("AttributeError")
    ELSE IF firmwares[fid].device # user.pk
        THEN Response(403, [error |-> "access denied to firmware"])
    ELSE IF files[fid] = Missing
        THEN Response(404, [error |-> "firmware file not found"])
    ELSE NoResponse

DownloadLookup ==
    /\ download.pc = "get"
    /\ LET out == LookupOutcome(download.user, download.fid) IN
       download' = IF out = NoResponse THEN [download EXCEPT !.pc = "read"]
                   ELSE [download EXCEPT !.pc = "done", !.resp = out]
    /\ UNCHANGED <<sync2, creating, now, devices, licenses, firmwares, files, sessions, logs,
                   sync, admin, upload>>

\* Lines 312-318: the file is opened and read, its digest compared.
DownloadRead ==
    /\ download.pc = "read"
    /\ LET data == files[download.fid] IN
       download' =
        IF data = Missing
            THEN [download EXCEPT !.pc = "done",
                      !.resp = ServerError("FileNotFoundError")]
        ELSE IF Sha256(data) # firmwares[download.fid].checksum
            THEN [download EXCEPT !.pc = "done", !.data = data,
                      !.resp = Response(400, [error |-> "checksum file is invalid"])]
        ELSE [download EXCEPT !.pc = "send", !.data = data]
    /\ UNCHANGED <<sync2, creating, now, devices, licenses, firmwares, files, sessions, logs,
                   sync, admin, upload>>

\* Lines 321-325: the file is opened a second time and that handle is
\* streamed; the header is the stored checksum.
DownloadSend ==
    /\ download.pc = "send"
    /\ LET data == files[download.fid] IN
       download' =
        IF data = Missing
            THEN [download EXCEPT !.pc = "done",
                      !.resp = ServerError("FileNotFoundError")]
        ELSE [download EXCEPT !.pc = "done",
                  !.resp = Response(200,
                      [streamed |-> data,
                       x_checksum |-> firmwares[download.fid].checksum])]
    /\ UNCHANGED <<sync2, creating, now, devices, licenses, firmwares, files, sessions, logs,
                   sync, admin, upload>>

(***************************************************************************)
(* The backing store changes under the application: a file is overwritten  *)
(* or removed (operator action, storage fault).                            *)
(***************************************************************************)
StorageWrite(f, c) ==
    /\ f \in FirmwareIds
    /\ files[f] # c
    /\ files' = [files EXCEPT ![f] = c]
    /\ UNCHANGED <<sync2, creating, now, devices, licenses, firmwares, sessions, logs,
                   sync, admin, upload, download>>

StorageRemove(f) ==
    /\ f \in FirmwareIds
    /\ files[f] # Missing
    /\ files' = [files EXCEPT ![f] = Missing]
    /\ UNCHANGED <<sync2, creating, now, devices, licenses, firmwares, sessions, logs,
                   sync, admin, upload, download>>

DownloadInFlight == download.pc \in {"get", "read", "send"}

NextDownload ==
    \/ \E key \in Keys, fid \in RequestedIds : DownloadAuthenticate(key, fid)
    \/ DownloadLookup
    \/ DownloadRead
    \/ DownloadSend
    \/ \E f \in FirmwareIds, c \in Contents : StorageWrite(f, c)
    \/ \E f \in FirmwareIds : StorageRemove(f)

\* The same requests with the store changing only between requests.
QuietStorageWrite(f, c) == ~DownloadInFlight /\ StorageWrite(f, c)

QuietStorageRemove(f) == ~DownloadInFlight /\ StorageRemove(f)

NextDownloadSeq ==
    \/ \E key \in Keys, fid \in RequestedIds : DownloadAuthenticate(key, fid)
    \/ DownloadLookup
    \/ DownloadRead
    \/ DownloadSend
    \/ \E f \in FirmwareIds, c \in Contents : QuietStorageWrite(f, c)
    \/ \E f \in FirmwareIds : QuietStorageRemove(f)

(***************************************************************************)
(* Initial state: two active devices that have never synced; the License   *)
(* table holds what device creation, the admin site or the data generator  *)
(* put there: nothing, or one license for d1.                              *)
(***************************************************************************)
InitDeviceRow ==
    [status |-> "active", lock_reason |-> "", firmware_version |-> <<1, 0>>,
     last_heartbeat |-> Null, last_online |-> Null]

InitLicenses ==
    {<<>>} \cup
    {<<[device |-> "d1", status |-> st, license_type |-> ty, end_date |-> e]>> :
        st \in LicenseStatuses, ty \in LicenseTypes, e \in EndDates}


InitTables(lics) ==
    /\ now = 0
    /\ devices = [d \in Devices |-> InitDeviceRow]
    /\ licenses = lics
    /\ firmwares = InitFirmwares
    /\ files = InitFiles
    /\ sessions = <<>>
    /\ logs = <<>>
    /\ sync = SyncIdle
    /\ admin = AdminIdle
    /\ upload = UploadIdle
    /\ download = DownloadIdle
    /\ sync2 = SyncIdle
    /\ creating = <<>>

Init == InitTables(<<>>)

InitLock == \E lics \in InitLicenses : InitTables(lics)

(***************************************************************************)
(* Lock, unlock, licensing, expiry and sync.                                *)
(***************************************************************************)
NextLock ==
    \/ \E key \in LockKeys, body \in LockBodies : SyncAuthenticate(key, body)
    \/ \E fs \in FailSets, fl \in FailSets : SyncPost(fs, fl)
    \/ \E d \in LockDevices, reason \in Reasons : Lock(d, reason)
    \/ \E d \in LockDevices : Unlock(d)
    \/ \E d \in LockDevices, st \in LicenseStatuses, e \in EndDates :
          LicenseCreate(d, st, "full", e)
    \/ Tick

SpecLock == InitLock /\ [][NextLock]_vars

(***************************************************************************)
(* Vocabulary of the claims about lock state and sync.                      *)
(***************************************************************************)
\* A sync request is answered in this step (by authentication or by post).
SyncAnswered == sync.pc # "done" /\ sync'.pc = "done"

\* post runs in this step for device d.
SyncPostBy(d) == sync.pc = "post" /\ IsDevice(sync.user) /\ sync.user.pk = d

\* A new sync request presenting key arrives in this step.
SyncArrives(key) == sync.pc # "post" /\ sync' # sync /\ sync'.key = key

DeviceAxisLocked(d) == devices[d].status = "locked"

\* The validity predicate of the data model: status = active AND
\* endDate >= today.
LicenseValid(d) ==
    \E i \in LicensesOf(d) :
        /\ licenses[i].status = "active"
        /\ licenses[i].end_date # Null
        /\ licenses[i].end_date >= now

EffectiveLock(d) == DeviceAxisLocked(d) \/ ~LicenseValid(d)

SyncOk(resp) == resp.code = 200

\* C1: whatever lock, unlock, license creation and expiry did to a device,
\* the next well-formed sync of that device is answered with
\* is_locked = (device locked) OR NOT (license active and end_date >= today).
C1_EffectiveLockReported ==
    [][\A d \in Devices :
        (SyncArrives(ApiKeyOf(d)) /\ SyncBodyValid(sync'.body)) \/
        (SyncPostBy(d) /\ SyncBodyValid(sync.body) /\ SyncAnswered)
        => /\ sync'.pc = "done" => SyncOk(sync'.resp)
           /\ SyncOk(sync'.resp) => sync'.resp.body.is_locked = EffectiveLock(d)
      ]_vars

\* C2: a well-formed sync of a device whose device axis is unlocked reports
\* license_valid = false and status = "locked" when the device has no valid
\* active license, and license_valid = true and status = "ok" when it has one.
C2_LicenseAxisReported ==
    [][\A d \in Devices :
        (SyncPostBy(d) /\ SyncBodyValid(sync.body) /\ ~DeviceAxisLocked(d))
        => /\ SyncOk(sync'.resp)
           /\ sync'.resp.body.license_valid = LicenseValid(d)
           /\ sync'.resp.body.status = IF LicenseValid(d) THEN "ok" ELSE "locked"
      ]_vars

\* C3: a sync with the empty body {} from an active device without a license
\* is accepted and answered license_valid = false, status = "locked".
C3_EmptyBodyAccepted ==
    [][\A d \in Devices :
        (SyncPostBy(d) /\ sync.body = <<>> /\ devices[d].status = "active"
            /\ LicensesOf(d) = {})
        => /\ sync'.resp.code # 400
           /\ SyncOk(sync'.resp)
           /\ sync'.resp.body.license_valid = FALSE
           /\ sync'.resp.body.status = "locked"
      ]_vars

\* C4: while a device is locked (lock applied, unlock not yet), a sync that
\* presents its API key authenticates and is answered status = "locked",
\* is_locked = true and the recorded lock_reason.
C4_LockedDeviceStillSyncs ==
    [][\A d \in Devices :
        /\ (DeviceAxisLocked(d) /\ SyncArrives(ApiKeyOf(d)))
            => sync'.pc = "post" /\ IsDevice(sync'.user) /\ sync'.user.pk = d
        /\ (DeviceAxisLocked(d) /\ SyncPostBy(d) /\ SyncBodyValid(sync.body))
            => /\ SyncOk(sync'.resp)
               /\ sync'.resp.body.status = "locked"
               /\ sync'.resp.body.is_locked = TRUE
               /\ sync'.resp.body.lock_reason = devices[d].lock_reason
      ]_vars

(***************************************************************************)
(* Claims about batch upload.                                               *)
(***************************************************************************)
UploadN == Len(upload.batch.sessions)
UploadM == Len(upload.batch.logs)

\* Some log of the upload batch names a reference no session of it carries.
HasDanglingLog ==
    \E k \in 1..UploadM :
        \A j \in 1..UploadN :
            upload.batch.sessions[j].reference # upload.batch.logs[k].session_reference

TablesAsBefore ==
    /\ Len(sessions) = upload.before.sessions
    /\ Len(logs) = upload.before.logs

\* C5: a batch with a log whose session_reference is no reference of the
\* batch is answered 400, and at no point of the request is a session or a
\* log stored.
C5_UnknownReferenceRejected ==
    (upload.pc # "idle" /\ IsDevice(upload.user) /\ HasDanglingLog)
    => /\ TablesAsBefore
       /\ upload.pc = "done" => upload.resp.code = 400

C5_Witness ==
    /\ upload.pc = "done"
    /\ IsDevice(upload.user)
    /\ UploadN = MaxBatch
    /\ \E k \in 1..UploadM : upload.batch.logs[k].session_reference = "rX"
    /\ \E k \in 1..UploadM : upload.batch.logs[k].session_reference = "r1"
    /\ upload.resp.code = 400

\* C6: a valid batch of N sessions and M logs that meets no persistence
\* failure is answered 201 with created_sessions = N and created_logs = M,
\* adds exactly N sessions and M logs, and binds the k-th log to a session
\* created from a batch session that carries the log's reference.
C6_ValidBatchCommitted ==
    (upload.pc = "done" /\ IsDevice(upload.user) /\ ~HasDanglingLog
        /\ upload.resp.code # 500)
    => /\ upload.resp.code = 201
       /\ upload.resp.body.created_sessions = UploadN
       /\ upload.resp.body.created_logs = UploadM
       /\ Len(sessions) = upload.before.sessions + UploadN
       /\ Len(logs) = upload.before.logs + UploadM
       /\ Len(upload.ids) = UploadN
       /\ \A j \in 1..UploadN :
            /\ upload.ids[j] = upload.before.sessions + j
            /\ sessions[upload.ids[j]].device = upload.user.pk
       /\ \A k \in 1..UploadM :
            \E j \in 1..UploadN :
                /\ upload.batch.sessions[j].reference =
                        upload.batch.logs[k].session_reference
                /\ logs[upload.before.logs + k].session = upload.ids[j]

C6_Witness ==
    /\ upload.pc = "done"
    /\ upload.resp.code = 201
    /\ UploadN = 2
    /\ UploadM = 2
    /\ upload.batch.sessions[1].reference # upload.batch.sessions[2].reference
    /\ upload.batch.logs[1].session_reference = "r2"
    /\ upload.batch.logs[2].session_reference = "r1"
    /\ logs[upload.before.logs + 1].session # logs[upload.before.logs + 2].session

\* C7: when the creation of a session or the bulk creation of the logs
\* raises, the request is answered 500 and no session and no log of the
\* batch stays stored.
C7_FailureRollsBack ==
    (upload.pc = "done" /\ upload.resp.code = 500) => TablesAsBefore

\* The bulk creation of the logs fails after every session was created.
C7_Witness ==
    /\ upload.pc = "done"
    /\ upload.resp.code = 500
    /\ IsDevice(upload.user)
    /\ UploadN = MaxBatch
    /\ upload.i = UploadN + 1
    /\ Len(upload.ids) = UploadN
    /\ TablesAsBefore

SpecUpload == Init /\ [][NextUpload]_vars

(***************************************************************************)
(* Claims about firmware download.                                          *)
(***************************************************************************)
Served(resp) == "streamed" \in DOMAIN resp.body

\* C8: in every 200 download the SHA-256 of the streamed bytes equals the
\* X-Checksum header, also when the backing file changes between the
\* integrity check and the streaming.
C8_StreamedBytesMatchHeader ==
    (download.pc = "done" /\ download.resp.code = 200)
    => Sha256(download.resp.body.streamed) = download.resp.body.x_checksum

\* C9: a download of a firmware record owned by another device is answered
\* 403 and serves no bytes, whatever the state of the backing file; a binary
\* is served only to the device that owns the record.
C9_OnlyOwnerDownloads ==
    /\ (download.pc = "done" /\ IsDevice(download.user)
            /\ download.fid \in FirmwareIds
            /\ firmwares[download.fid].device # download.user.pk)
        => download.resp.code = 403 /\ ~Served(download.resp)
    /\ (download.pc = "done" /\ Served(download.resp))
        => /\ IsDevice(download.user)
           /\ download.fid \in FirmwareIds
           /\ firmwares[download.fid].device = download.user.pk

\* d1 asks for d2's firmware while its file is gone, or holds other bytes.
C9_Witness ==
    /\ download.pc = "done"
    /\ IsDevice(download.user)
    /\ download.user.pk = "d1"
    /\ download.fid = 2
    /\ files[2] # 2
    /\ download.resp.code = 403

\* The answer the fixed order of tests gives device d for firmware id fid.
ExpectedCode(d, fid) ==
    IF fid \notin FirmwareIds THEN 404
    ELSE IF firmwares[fid].device # d THEN 403
    ELSE IF files[fid] = Missing THEN 404
    ELSE IF Sha256(files[fid]) # firmwares[fid].checksum THEN 400
    ELSE 200

DownloadStep == download.pc # "idle" /\ download' # download

DownloadAnswered == download.pc # "done" /\ download'.pc = "done"

SpecDownload == Init /\ [][NextDownload]_vars

SpecDownloadSeq == Init /\ [][NextDownloadSeq]_vars

(***************************************************************************)
(* Sync requests that carry sessions and logs.                              *)
(***************************************************************************)
SyncIngestBodies ==
    {b0 @@ b1 @@ b2 :
        b0 \in {<<>>, [serial |-> "SN-1"]},
        b1 \in {<<>>} \cup
                {[sessions |-> ss] : ss \in SeqsUpTo(SyncSessionItems, MaxBatch) \ {<<>>}},
        b2 \in {<<>>} \cup
                {[logs |-> ls] : ls \in SeqsUpTo(SyncLogItems, MaxBatch) \ {<<>>}}}

NextSync ==
    \/ \E key \in LockKeys, body \in SyncIngestBodies : SyncAuthenticate(key, body)
    \/ \E fs \in FailSets, fl \in FailSets : SyncPost(fs, fl)
    \/ Tick

SpecSync == Init /\ [][NextSync]_vars

SyncN == Len(BodySessions(sync.body))
SyncM == Len(BodyLogs(sync.body))

\* Some insert of the sync's items fails.
IngestFails(fs, fl) == (fs \cap (1..SyncN)) \cup (fl \cap (1..SyncM)) # {}

\* post runs in this step for a device with a body that carries a serial.
SyncPostStep(fs, fl) ==
    SyncPost(fs, fl) /\ IsDevice(sync.user) /\ "serial" \in DOMAIN sync.body

\* C13: a sync whose body fails validation (no serial) is answered 400 and
\* changes nothing: no column of the device, no session, no log.
C13_InvalidSyncBodyRejected ==
    [][(sync.pc = "post" /\ "serial" \notin DOMAIN sync.body /\ sync' # sync)
        => /\ sync'.resp.code = 400
           /\ UNCHANGED <<dbvars, now>>
      ]_vars

\* An authenticated device sends sessions and logs but no serial.
C13_Witness ==
    /\ sync.pc = "done"
    /\ IsDevice(sync.user)
    /\ "serial" \notin DOMAIN sync.body
    /\ "firmware_version" \notin DOMAIN sync.body
    /\ SyncN = MaxBatch
    /\ SyncM >= 1
    /\ sync.resp.code = 400
    /\ devices[sync.user.pk].last_heartbeat = Null
    /\ sessions = <<>>

\* C14: the sessions and logs of a sync are ingested all or nothing: when
\* an insert fails no session and no log of the request is stored, otherwise
\* all of them are, each log bound to the session created from the batch
\* session that carries its reference.
C14_SyncIngestsAllOrNothing ==
    [][\A fs \in FailSets, fl \in FailSets :
        (SyncPostStep(fs, fl) /\ (SyncM > 0 => SyncN > 0))
        => IF IngestFails(fs, fl) THEN UNCHANGED <<sessions, logs>>
           ELSE /\ Len(sessions') = Len(sessions) + SyncN
                /\ Len(logs') = Len(logs) + SyncM
                /\ \A k \in 1..SyncM :
                     \E j \in 1..SyncN :
                        /\ sync.body.sessions[j].reference =
                                sync.body.logs[k].session_reference
                        /\ logs'[Len(logs) + k].session = Len(sessions) + j
      ]_vars

\* C15: when an insert of the sync's sessions or logs fails, the heartbeat
\* and version update of the device stays stored and the sync is answered
\* 200 with status, is_locked, license_valid and device_config.
C15_IngestFailureKeepsSync ==
    [][\A fs \in FailSets, fl \in FailSets :
        (SyncPostStep(fs, fl) /\ IngestFails(fs, fl))
        => /\ devices'[sync.user.pk].last_heartbeat = now
           /\ devices'[sync.user.pk].last_online = now
           /\ SyncOk(sync'.resp)
           /\ {"status", "is_locked", "license_valid", "device_config"}
                \subseteq DOMAIN sync'.resp.body
      ]_vars

(***************************************************************************)
(* Claims about faults, lock and unlock.                                    *)
(***************************************************************************)
\* The response was built by the handler, not by the fault handler of the
\* framework.
Structured(resp) == "exception" \notin DOMAIN resp.body

UploadAnswered == upload.pc # "done" /\ upload'.pc = "done"

\* C16: whatever licenses a device has, its sync and its upload end in a
\* response the handler built, never in an unhandled exception, and a
\* well-formed sync of a device without a valid active license is answered
\* 200 with license_valid = false.
C16_NoUnhandledFault ==
    [][/\ \A d \in Devices :
            (SyncPostBy(d) /\ SyncAnswered)
            => /\ Structured(sync'.resp)
               /\ (SyncBodyValid(sync.body) /\ ~LicenseValid(d))
                    => /\ SyncOk(sync'.resp)
                       /\ sync'.resp.body.license_valid = FALSE
       /\ (UploadAnswered /\ IsDevice(upload.user)) => Structured(upload'.resp)
      ]_vars

\* The licenses of device d with their status set to st, the others as they
\* are.
LicensesWithStatus(d, st) ==
    [i \in LicenseIds |->
        IF licenses[i].device = d THEN [licenses[i] EXCEPT !.status = st]
        ELSE licenses[i]]

\* C17: lock(device, reason) succeeds, with or without a license; it sets
\* the device status to locked and lock_reason to the reason, sets the
\* status of the device's license to locked and changes nothing else (so a
\* second lock with the same reason leaves the state of the first).
C17_LockLocksDeviceAndLicense ==
    [][\A d \in Devices, reason \in Reasons :
        Lock(d, reason)
        => /\ admin'.resp.code = 200
           /\ devices' = [devices EXCEPT ![d].status = "locked",
                                         ![d].lock_reason = reason]
           /\ licenses' = LicensesWithStatus(d, "locked")
      ]_vars

\* C18: unlock(device) succeeds, with or without a license; it sets the
\* device status to active, clears lock_reason and sets the status of the
\* device's license to active whatever its status and dates were.
C18_UnlockRestoresDeviceAndLicense ==
    [][\A d \in Devices :
        Unlock(d)
        => /\ admin'.resp.code = 200
           /\ devices' = [devices EXCEPT ![d].status = "active",
                                         ![d].lock_reason = ""]
           /\ licenses' = LicensesWithStatus(d, "active")
      ]_vars

(***************************************************************************)
(* Firmware upload, sync and download.                                      *)
(***************************************************************************)
FirmwareKeys == {"k1", "k2"}

\* The versions the devices report: "1" and "10".
ReportedVersions == {<<1>>, <<1, 0>>}

FirmwareBodies ==
    {[serial |-> "SN-1"] @@ b :
        b \in {<<>>} \cup {[firmware_version |-> v] : v \in ReportedVersions}}

NextFirmware ==
    \/ \E d \in Devices, v \in Versions, file \in Contents \cup {Missing},
          supplied \in SuppliedChecksums : FirmwareUpload(d, v, file, supplied)
    \/ \E body \in FirmwareBodies : SyncAuthenticate("k1", body)
    \/ \E fs \in FailSets, fl \in FailSets : SyncPost(fs, fl)
    \/ \E key \in FirmwareKeys, fid \in RequestedIds : DownloadAuthenticate(key, fid)
    \/ DownloadLookup
    \/ DownloadRead
    \/ DownloadSend

SpecFirmware == Init /\ [][NextFirmware]_vars

\* The firmware records of device d whose version string is greater than cur.
NewerOf(d, cur) ==
    {i \in FirmwareIds :
        /\ firmwares[i].device = d
        /\ StrLess(cur, firmwares[i].firmware_version)}

HasUpdate(resp) ==
    /\ "firmware_update" \in DOMAIN resp.body
    /\ resp.body.firmware_update.present

\* C11: a sync response carries a firmware_update exactly when the device
\* has a firmware record whose version string is greater than the device's
\* version after this sync's update; the descriptor names the greatest such
\* version of the device's own records and that record's checksum.
C11_UpdateOffered ==
    [][\A d \in Devices :
        (SyncPostBy(d) /\ SyncBodyValid(sync.body) /\ SyncAnswered)
        => LET newer == NewerOf(d, devices'[d].firmware_version) IN
           /\ HasUpdate(sync'.resp) <=> newer # {}
           /\ HasUpdate(sync'.resp)
                => \E i \in newer :
                    /\ \A j \in newer :
                          ~StrLess(firmwares[i].firmware_version,
                                   firmwares[j].firmware_version)
                    /\ sync'.resp.body.firmware_update.version =
                            firmwares[i].firmware_version
                    /\ sync'.resp.body.firmware_update.checksum =
                            firmwares[i].checksum
      ]_vars

\* C19: an upload that carries a file is rejected exactly when a record of
\* the same device and version exists (so a version one device has can be
\* stored for another), and no two records share device and version.
C19_UniquePerDevice ==
    [][/\ \A d \in Devices, v \in Versions, file \in Contents,
             supplied \in SuppliedChecksums :
            FirmwareUpload(d, v, file, supplied)
            => (admin'.resp.code = 400
                    <=> \E i \in FirmwareIds :
                            /\ firmwares[i].device = d
                            /\ firmwares[i].firmware_version = v)
       /\ \A i \in 1..Len(firmwares'), j \in 1..Len(firmwares') :
            (/\ firmwares'[i].device = firmwares'[j].device
             /\ firmwares'[i].firmware_version = firmwares'[j].firmware_version)
            => i = j
      ]_vars

UploadedIds == {f \in FirmwareIds : f > Len(InitFirmwares)}

\* C20: every firmware record the upload created has the SHA-256 of its
\* stored binary as checksum, never the empty or the caller's value, in
\* every state that uploads, syncs and downloads lead to.
C20_ChecksumIsDigest ==
    \A f \in UploadedIds :
        /\ files[f] # Missing
        /\ firmwares[f].checksum = Sha256(files[f])
        /\ firmwares[f].checksum # NoChecksum

\* An uploaded binary whose digest is not the one callers send has been
\* downloaded by its device.
C20_Witness ==
    /\ UploadedIds # {}
    /\ \E f \in UploadedIds : Sha256(files[f]) \notin SuppliedChecksums
    /\ download.pc = "done"
    /\ download.fid \in UploadedIds
    /\ download.resp.code = 200

(***************************************************************************)
(* The three device endpoints under every kind of credential; device d2     *)
(* is in maintenance.                                                       *)
(***************************************************************************)
InitAuth ==
    /\ now = 0
    /\ devices = [d \in Devices |->
                    IF d = "d2" THEN [InitDeviceRow EXCEPT !.status = "maintenance"]
                    ELSE InitDeviceRow]
    /\ licenses = <<>>
    /\ firmwares = InitFirmwares
    /\ files = InitFiles
    /\ sessions = <<>>
    /\ logs = <<>>
    /\ sync = SyncIdle
    /\ admin = AdminIdle
    /\ upload = UploadIdle
    /\ download = DownloadIdle
    /\ sync2 = SyncIdle
    /\ creating = <<>>

AuthBodies == {[serial |-> "SN-1"]}

AuthBatches ==
    {EmptyBatch,
     [sessions |-> <<[reference |-> "r1", patient_id |-> "", patient_token |-> ""]>>,
      logs |-> <<[session_reference |-> "r1", log_type |-> "info"]>>]}

AuthRequestedIds == {1, 3}

NextAuth ==
    \/ \E key \in Keys, body \in AuthBodies : SyncAuthenticate(key, body)
    \/ \E fs \in FailSets, fl \in FailSets : SyncPost(fs, fl)
    \/ \E key \in Keys, batch \in AuthBatches : UploadAuthenticate(key, batch)
    \/ UploadBegin
    \/ \E raises \in BOOLEAN : UploadCreateSession(raises)
    \/ \E raises \in BOOLEAN : UploadBulkLogs(raises)
    \/ \E key \in Keys, fid \in AuthRequestedIds : DownloadAuthenticate(key, fid)
    \/ DownloadLookup
    \/ DownloadRead
    \/ DownloadSend

SpecAuth == InitAuth /\ [][NextAuth]_vars

\* The key is some stored device's key and that device is not in maintenance.
Authenticable(key) ==
    \E d \in Devices : ApiKeyOf(d) = key /\ devices[d].status # "maintenance"

AuthError(resp) == resp.code \in {401, 403} /\ "detail" \in DOMAIN resp.body

\* A request record r that has arrived: with a key that is not authenticable
\* it is already answered with an authentication error, and while a handler
\* works on it its user is the one device that has the key.
GateHolds(r) ==
    /\ (r.pc # "idle" /\ ~Authenticable(r.key))
        => r.pc = "done" /\ AuthError(r.resp)
    /\ r.pc \notin {"idle", "done"}
        => IsDevice(r.user) /\ ApiKeyOf(r.user.pk) = r.key

\* C12: a sync, upload or download is handled only for the one device its
\* API key resolves to; with a missing key, an unknown key or the key of a
\* device in maintenance it is answered with an authentication error and no
\* device, license, firmware, session or log record changes.
C12_AuthenticationGate ==
    [][/\ GateHolds(sync')
       /\ GateHolds(upload')
       /\ GateHolds(download')
       /\ (sync' # sync /\ ~Authenticable(sync'.key)) => UNCHANGED dbvars
       /\ (upload' # upload /\ ~Authenticable(upload'.key)) => UNCHANGED dbvars
       /\ (download' # download /\ ~Authenticable(download'.key))
            => UNCHANGED dbvars
      ]_vars

(***************************************************************************)
(* Both ingestion paths, for two devices.                                   *)
(***************************************************************************)
IngestKeys == {"k1", "k2"}

IngestBatches ==
    {[sessions |-> <<[reference |-> "r1", patient_id |-> "", patient_token |-> ""]>>,
      logs |-> <<[session_reference |-> r, log_type |-> "info"]>>] :
        r \in {"r1", "rX"}}
    \cup
    {[sessions |-> <<[reference |-> "r1", patient_id |-> "", patient_token |-> ""],
                    [reference |-> "r2", patient_id |-> "p1", patient_token |-> ""]>>,
      logs |-> <<[session_reference |-> "r2", log_type |-> "info"],
                [session_reference |-> "r1", log_type |-> "info"]>>]}

IngestSyncBodies ==
    {[serial |-> "SN-1",
      sessions |-> <<[reference |-> "r1", patient_id |-> ""]>>,
      logs |-> <<[session_reference |-> "r1", session_id |-> id, log_type |-> "info"]>>] :
        id \in {Null, 1}}

NextIngest ==
    \/ \E key \in IngestKeys, batch \in IngestBatches : UploadAuthenticate(key, batch)
    \/ UploadBegin
    \/ \E raises \in BOOLEAN : UploadCreateSession(raises)
    \/ \E raises \in BOOLEAN : UploadBulkLogs(raises)
    \/ \E key \in IngestKeys, body \in IngestSyncBodies : SyncAuthenticate(key, body)
    \/ \E fs \in FailSets, fl \in FailSets : SyncPost(fs, fl)
    \/ \E key \in IngestKeys, fid \in AuthRequestedIds : DownloadAuthenticate(key, fid)
    \/ DownloadLookup
    \/ DownloadRead
    \/ DownloadSend

SpecIngest == Init /\ [][NextIngest]_vars

\* C21: every stored log is bound to a stored session, whatever uploads and
\* syncs (with logs whose reference or session id resolves to nothing) ran.
C21_NoOrphanLog ==
    \A k \in 1..Len(logs) : logs[k].session \in 1..Len(sessions)

\* Logs are stored, an upload with a dangling log was refused, and a sync
\* that carried a log without a session id has been answered.
C21_Witness ==
    /\ Len(logs) >= 1
    /\ upload.pc = "done"
    /\ HasDanglingLog
    /\ upload.resp.code = 400
    /\ sync.pc = "done"
    /\ IsDevice(sync.user)
    /\ \E k \in 1..SyncM : sync.body.logs[k].session_id = Null

\* The rows of a table before a step that the step did not leave as they
\* were: changed in place, or removed.
Touched(old, new) ==
    {i \in 1..Len(old) : i > Len(new) \/ new[i] # old[i]}

Added(old, new) == {i \in 1..Len(new) : i > Len(old)}

\* What device d may do to the tables in one step: add sessions of its own
\* with its own clinic, add logs bound to its own sessions, take back rows
\* of its own, and write its own device row.
OwnRowsOnly(d) ==
    /\ \A i \in Added(sessions, sessions') :
          /\ sessions'[i].device = d
          /\ sessions'[i].clinic = ClinicOf(d)
    /\ \A k \in Added(logs, logs') :
          /\ logs'[k].session \in 1..Len(sessions')
          /\ sessions'[logs'[k].session].device = d
    /\ \A i \in Touched(sessions, sessions') : sessions[i].device = d
    /\ \A k \in Touched(logs, logs') :
          /\ logs[k].session \in 1..Len(sessions)
          /\ sessions[logs[k].session].device = d
    /\ \A e \in Devices \ {d} : devices'[e] = devices[e]
    /\ UNCHANGED <<firmwares, files, licenses>>

\* C22: a step of a sync, upload or download of device d creates sessions
\* only for d with d's clinic, binds logs only to sessions of d, and leaves
\* the rows of every other device as they are.
C22_PartitionedByDevice ==
    [][/\ (upload' # upload /\ IsDevice(upload'.user)) => OwnRowsOnly(upload'.user.pk)
       /\ (sync' # sync /\ IsDevice(sync'.user)) => OwnRowsOnly(sync'.user.pk)
       /\ (download' # download /\ IsDevice(download'.user))
            => OwnRowsOnly(download'.user.pk) /\ UNCHANGED <<sessions, logs>>
      ]_vars

\* Both devices have stored sessions and logs; the upload of d2 came after
\* that of d1.
C22_Witness ==
    /\ upload.pc = "done"
    /\ upload.resp.code = 201
    /\ IsDevice(upload.user)
    /\ upload.user.pk = "d2"
    /\ upload.before.sessions >= 1
    /\ sessions[1].device = "d1"
    /\ sessions[Len(sessions)].device = "d2"
    /\ sessions[Len(sessions)].clinic = ClinicOf("d2")
    /\ Len(logs) >= 2
    /\ sessions[logs[Len(logs)].session].device = "d2"

(***************************************************************************)
(* Uploads whose sessions name patients by identifier or by token, while    *)
(* the tokens run out.                                                      *)
(***************************************************************************)
PatientItems ==
    {[reference |-> "r1", patient_id |-> f[1], patient_token |-> f[2]] :
        f \in {<<"", "">>, <<"p2", "">>, <<"p2", "t1">>, <<"pX", "t1">>,
               <<"", "t1">>, <<"", "tX">>}}

PatientBatches ==
    {[sessions |-> ss, logs |-> <<>>] :
        ss \in SeqsUpTo(PatientItems, MaxBatch) \ {<<>>}}

NextPatient ==
    \/ \E batch \in PatientBatches : UploadAuthenticate("k1", batch)
    \/ UploadBegin
    \/ \E raises \in BOOLEAN : UploadCreateSession(raises)
    \/ \E raises \in BOOLEAN : UploadBulkLogs(raises)
    \/ Tick

SpecPatient == Init /\ [][NextPatient]_vars

\* The patient the rule names for a session item, at the present time.
ExpectedPatient(item) ==
    IF item.patient_id # ""
        THEN IF item.patient_id \in Patients THEN item.patient_id ELSE NoPatient
    ELSE IF item.patient_token = "" THEN NoPatient
    ELSE IF /\ TokenTable(item.patient_token).exists
            /\ now < TokenTable(item.patient_token).expires_at
        THEN TokenTable(item.patient_token).patient
    ELSE NoPatient

\* C23: the session of an item is stored with the patient of its
\* patient_id if that patient exists and with none if not (the token is not
\* looked at); without patient_id, with the patient of its token if the
\* token exists and has not expired and with none if not; with neither,
\* with none.  Unless the insert itself fails the session is stored and
\* counted, resolved or not.
C23_PatientResolution ==
    [][/\ (UploadCreateSession(FALSE) /\ IsDevice(upload.user))
            => /\ Len(sessions') = Len(sessions) + 1
               /\ sessions'[Len(sessions')].patient =
                    ExpectedPatient(upload.batch.sessions[upload.i])
               /\ upload'.pc = "atomic"
               /\ upload'.i = upload.i + 1
       /\ (UploadBulkLogs(FALSE) /\ IsDevice(upload.user))
            => /\ upload'.resp.code = 201
               /\ upload'.resp.body.created_sessions = UploadN
      ]_vars

\* One batch: an unknown identifier next to a valid token (no patient), and
\* a valid token alone (the token's patient); both sessions are counted.
C23_Witness ==
    /\ upload.pc = "done"
    /\ upload.resp.code = 201
    /\ UploadN = 2
    /\ upload.resp.body.created_sessions = 2
    /\ upload.batch.sessions[1].patient_id = "pX"
    /\ upload.batch.sessions[1].patient_token = "t1"
    /\ upload.batch.sessions[2].patient_id = ""
    /\ upload.batch.sessions[2].patient_token = "t1"
    /\ sessions[upload.ids[1]].patient = NoPatient
    /\ sessions[upload.ids[2]].patient = "p1"

(***************************************************************************)
(* What a sync writes, and what a lock that lands during a sync keeps.      *)
(***************************************************************************)
\* The columns of a device row a sync may write.
SyncWrites == {"firmware_version", "last_heartbeat", "last_online"}

\* C24: post changes, of the persisted state, only the caller's
\* last_heartbeat, last_online and firmware_version (the latter only when the
\* request reports one) and the sessions and logs it ingests; status and
\* lock_reason of every device, and every License and Firmware record, are
\* as before.
C24_SyncFrame ==
    [][\A fs \in FailSets, fl \in FailSets :
          SyncPost(fs, fl) =>
            /\ licenses' = licenses
            /\ firmwares' = firmwares
            /\ files' = files
            /\ \A d \in Devices :
                  \A f \in DeviceFields :
                     devices'[d][f] # devices[d][f] =>
                        /\ IsDevice(sync.user)
                        /\ d = sync.user.pk
                        /\ f \in SyncWrites
                        /\ f = "firmware_version" =>
                              "firmware_version" \in DOMAIN sync.body
      ]_vars

\* C27: a lock that completed after the sync loaded the device row and
\* before the sync saved it is still in force once the sync has completed:
\* status is locked and lock_reason is the recorded reason.
C27_LockSurvivesSync ==
    [][\A fs \in FailSets, fl \in FailSets :
          (/\ SyncPost(fs, fl)
           /\ IsDevice(sync.user)
           /\ admin.op = "lock"
           /\ admin.device = sync.user.pk
           /\ devices[sync.user.pk].status = "locked")
            => /\ devices'[sync.user.pk].status = "locked"
               /\ devices'[sync.user.pk].lock_reason =
                     devices[sync.user.pk].lock_reason
      ]_vars

(***************************************************************************)
(* Two sync requests of one device in flight at once.                       *)
(***************************************************************************)
ConcurrentBodies ==
    {[serial |-> "SN-1"] @@ b1 @@ b2 :
        b1 \in {<<>>} \cup {[firmware_version |-> v] : v \in Versions},
        b2 \in {<<>>, [sessions |-> <<[reference |-> "r1", patient_id |-> ""]>>]}}

NextConcurrent ==
    \/ \E body \in ConcurrentBodies : SyncAuthenticate("k1", body)
    \/ \E body \in ConcurrentBodies : SyncAuthenticate2("k1", body)
    \/ SyncPost({}, {})
    \/ SyncPost2({}, {})
    \/ Tick

SpecConcurrent == Init /\ [][NextConcurrent]_vars

\* post of the request r, which reports no firmware_version, runs in this
\* step (as the first or as the second request in flight).
SilentPost(r, posts) ==
    /\ posts
    /\ IsDevice(r.user)
    /\ SyncBodyValid(r.body)
    /\ "firmware_version" \notin DOMAIN r.body

\* C25: with two sync calls of one device interleaved, a call that reports
\* no firmware_version leaves the stored firmware_version as it finds it, so
\* the stored version is always the one a reporting call wrote last (or the
\* prior value).
C25_SilentCallKeepsVersion ==
    [][/\ SilentPost(sync, SyncPost({}, {})) =>
            devices'[sync.user.pk].firmware_version =
                devices[sync.user.pk].firmware_version
       /\ SilentPost(sync2, SyncPost2({}, {})) =>
            devices'[sync2.user.pk].firmware_version =
                devices[sync2.user.pk].firmware_version
      ]_vars

(***************************************************************************)
(* A batch submitted again.                                                 *)
(***************************************************************************)
\* The request that was answered 201 is submitted again in this step: the
\* same key, the same batch.
UploadRetry ==
    /\ upload.pc = "done"
    /\ upload.resp.code = 201
    /\ UploadAuthenticate(upload.key, upload.batch)

\* C26: upload detects no replay.  The batch that was accepted is taken up
\* again on top of the N sessions and M logs its first submission left, is
\* validated whatever is stored, and, meeting no persistence failure, is
\* answered 201 and adds N sessions and M logs once more, each of its logs
\* bound to a session of this submission.
C26_RetryDuplicates ==
    [][/\ UploadRetry =>
            /\ upload'.pc = "post"
            /\ upload'.before.sessions = upload.before.sessions + UploadN
            /\ upload'.before.logs = upload.before.logs + UploadM
       /\ (UploadBegin /\ IsDevice(upload.user) /\ ~HasDanglingLog) =>
            upload'.pc = "atomic"
       /\ (UploadBulkLogs(FALSE) /\ IsDevice(upload.user)) =>
            /\ upload'.resp.code = 201
            /\ Len(sessions') = upload.before.sessions + UploadN
            /\ Len(logs') = upload.before.logs + UploadM
            /\ \A k \in 1..UploadM :
                  logs'[upload.before.logs + k].session \in
                     (upload.before.sessions + 1)..(upload.before.sessions + UploadN)
      ]_vars

\* The batch of one session and one log was accepted twice: two equal
\* sessions and two logs are stored, each log with the session of its own
\* submission.
C26_Witness ==
    /\ upload.pc = "done"
    /\ upload.resp.code = 201
    /\ UploadN = 1
    /\ UploadM = 1
    /\ upload.before = [sessions |-> 1, logs |-> 1]
    /\ Len(sessions) = 2
    /\ Len(logs) = 2
    /\ sessions[1] = sessions[2]
    /\ upload.batch.sessions[1].reference = "r2"
    /\ logs[1].session = 1
    /\ logs[2].session = 2

(***************************************************************************)
(* License creation, lock and unlock requests served side by side.          *)
(***************************************************************************)
NextLicense ==
    \/ \E d \in LockDevices, st \in LicenseStatuses, ty \in LicenseTypes,
          e \in EndDates : LicenseValidated(d, st, ty, e)
    \/ \E k \in 1..MaxPending : LicenseSaved(k)
    \/ \E d \in LockDevices, reason \in Reasons : Lock(d, reason)
    \/ \E d \in LockDevices : Unlock(d)

SpecLicense == InitLock /\ [][NextLicense]_vars

\* C28: whatever license creations, locks and unlocks have run, in whatever
\* interleaving, every device has at most one license with status active.
C28_AtMostOneActive ==
    \A d \in Devices : Cardinality(ActiveLicensesOf(d)) <= 1

(***************************************************************************)
(* Ingestion by a device under the effective lock.                          *)
(***************************************************************************)
\* C29: the sync of a device under the effective lock (locked, or without a
\* valid license) is answered with status "locked" and still stores the
\* heartbeat and the sessions of the request, as for an unlocked device.
C29_LockDoesNotGateIngestion ==
    [][\A fs \in FailSets, fl \in FailSets :
        (/\ SyncPostStep(fs, fl)
         /\ EffectiveLock(sync.user.pk)
         /\ ~IngestFails(fs, fl))
        => /\ SyncOk(sync'.resp)
           /\ sync'.resp.body.status = "locked"
           /\ devices'[sync.user.pk].last_heartbeat = now
           /\ Len(sessions') = Len(sessions) + SyncN
      ]_vars

(***************************************************************************)
(* Batches in which two sessions carry the same reference.                  *)
(***************************************************************************)
\* The positions of the batch sessions that carry the reference ref.
PositionsOf(ref) ==
    {j \in 1..UploadN : upload.batch.sessions[j].reference = ref}

HasDuplicateReference ==
    \E ref \in Refs : Cardinality(PositionsOf(ref)) > 1

\* The last position of the batch that carries ref.
LastOf(ref) ==
    CHOOSE j \in PositionsOf(ref) : \A q \in PositionsOf(ref) : q <= j

\* C30: a batch in which two session items carry the same reference is
\* accepted; unless an insert fails, every session is created and counted
\* and every log is bound to the session created from the last item that
\* carries the log's reference, none to an earlier one.
C30_DuplicateReferenceLastWins ==
    (upload.pc = "done" /\ IsDevice(upload.user) /\ HasDuplicateReference
        /\ ~HasDanglingLog /\ upload.resp.code # 500)
    => /\ upload.resp.code = 201
       /\ upload.resp.body.created_sessions = UploadN
       /\ Len(sessions) = upload.before.sessions + UploadN
       /\ \A k \in 1..UploadM :
            logs[upload.before.logs + k].session =
                upload.ids[LastOf(upload.batch.logs[k].session_reference)]

\* Two sessions under the reference r1 and two logs of r1: both logs are on
\* the second session.
C30_Witness ==
    /\ upload.pc = "done"
    /\ upload.resp.code = 201
    /\ UploadN = 2
    /\ UploadM = 2
    /\ PositionsOf("r1") = {1, 2}
    /\ upload.resp.body.created_sessions = 2
    /\ Len(sessions) = 2
    /\ \A k \in 1..2 : logs[k].session = upload.ids[2]
    /\ upload.ids[1] # upload.ids[2]

====
